---- MODULE Spec2Model ----
(***************************************************************************)
(* Model of experanto/interpolators.py: TimeInterval, Interpolator,        *)
(* SequenceInterpolator and ScreenInterpolator, with the sequence          *)
(* recordings that tests/create_mock_data.py generates.                    *)
(*                                                                         *)
(* Time is counted in integer ticks.  For a screen recording Eps ticks are *)
(* the 1e-6 time units that ScreenInterpolator.interpolate adds to every   *)
(* valid query time, so one time unit is TicksPerUnit ticks (tick k is the *)
(* float k * 5e-7).  For a sequence recording one time unit is             *)
(* SequenceTicksPerUnit ticks (tick k is the float k * 0.25): start_time,  *)
(* end_time, the phase shifts, the query times and 1/sampling_rate are     *)
(* then binary fractions, on which every float64 operation of              *)
(* SequenceInterpolator is exact, so np.round sees the exact quotient and  *)
(* its ties.  On times that are not binary fractions the float quotient    *)
(* of an exact tie can fall on either side of .5; such times are not       *)
(* among the inputs of this model.                                         *)
(*                                                                         *)
(* An object is a record whose DOMAIN is the set of attributes it has: an  *)
(* attribute read outside the DOMAIN is Python's AttributeError.  Array    *)
(* indices keep the source's 0-based values; TLA+ sequences are 1-based,   *)
(* and NpGet converts.                                                     *)
(***************************************************************************)
EXTENDS Integers, Sequences, FiniteSets, TLC

\* ---------------------------------------------------------------- bounds
MaxTime == 4        \* query times, onsets and t_end range over 0..MaxTime
MaxQueries == 2     \* longest times array passed to a call
MaxFrames == 3      \* most frames in a screen recording
MaxChannels == 2    \* most signals in a sequence recording

\* the 1e-6 added to valid query times, in ticks of a screen recording
Eps == 2
TicksPerUnit == Eps * 1000000

\* ticks per time unit of a sequence recording: a power of two
SequenceTicksPerUnit == 4

Times == 0..MaxTime
\* samples per time unit: time_delta is 2 or 4 ticks
SamplingRates == {SequenceTicksPerUnit \div 2, SequenceTicksPerUnit \div 4}
StartTimes == {0, 1}
EndTimes == {MaxTime - 1, MaxTime}

RECURSIVE SeqsUpTo(_, _)
SeqsUpTo(S, n) ==
    IF n = 0 THEN {<<>>}
    ELSE LET shorter == SeqsUpTo(S, n - 1)
         IN  shorter \cup {Append(s, x) : s \in {q \in shorter : Len(q) = n - 1}, x \in S}

TimesArrays == SeqsUpTo(Times, MaxQueries)

\* ------------------------------------------------------- numpy primitives
Max(S) == CHOOSE x \in S : \A y \in S : y <= x
Min(S) == CHOOSE x \in S : \A y \in S : x <= y
Range(s) == {s[k] : k \in DOMAIN s}

\* a[mask] for a boolean mask: the entries at the true positions, in order
RECURSIVE BoolIndex(_, _)
BoolIndex(a, mask) ==
    IF a = <<>> THEN <<>>
    ELSE (IF Head(mask) THEN <<Head(a)>> ELSE <<>>) \o BoolIndex(Tail(a), Tail(mask))

\* np.round(n / d) for d > 0: round half to even
RoundHalfEven(n, d) ==
    LET q == n \div d
        r == n % d
    IN  IF 2 * r < d THEN q
        ELSE IF 2 * r > d THEN q + 1
        ELSE IF q % 2 = 0 THEN q ELSE q + 1

\* a[i] for a 0-based integer index: negative indices wrap, others raise
InBounds(a, i) == i >= 0 - Len(a) /\ i < Len(a)
NpGet(a, i) == IF i >= 0 THEN a[i + 1] ELSE a[Len(a) + i + 1]

\* np.searchsorted(a, v, side='right'): the number of entries of a up to v
SearchSortedRight(a, v) == Cardinality({j \in DOMAIN a : a[j] <= v})

\* np.searchsorted(a, v), side='left': the number of entries of a below v
SearchSorted(a, v) == Cardinality({j \in DOMAIN a : a[j] < v})

\* np.unique: the distinct values in ascending order
RECURSIVE SortedSeq(_)
SortedSeq(S) == IF S = {} THEN <<>> ELSE <<Min(S)>> \o SortedSeq(S \ {Min(S)})
Unique(a) == SortedSeq(Range(a))

\* ------------------------------------------------------------ TimeInterval
TimeInterval(start, end) == [start |-> start, end |-> end]

\* Intersect with the end of the interval included
IntersectClosedEnd(interval, times) ==
    [k \in DOMAIN times |-> times[k] >= interval.start /\ times[k] <= interval.end]

Intersect(interval, times) ==
    [k \in DOMAIN times |-> times[k] >= interval.start /\ times[k] < interval.end]

\* ------------------------------------------------------------- Interpolator
InterpolatorInit(meta) ==
    [start_time |-> meta.start_time,
     end_time |-> meta.end_time,
     valid_interval |-> TimeInterval(meta.start_time, meta.end_time)]

ValidTimesOf(obj, times) == Intersect(obj.valid_interval, times)

\* the result of a call: status "ok" or the exception raised
Raise(exc) == [status |-> exc, values |-> <<>>, mask |-> <<>>, idx |-> <<>>, loads |-> <<>>, writes |-> <<>>]

\* the second __contains__ of class Interpolator, which replaces the first
ContainsOf(obj, times) ==
    IF "timestamps" \notin DOMAIN obj THEN Raise("AttributeError")
    ELSE [Raise("ok") EXCEPT !.values =
            \E k \in DOMAIN times :
                times[k] >= obj.timestamps[1] /\ times[k] <= obj.timestamps[Len(obj.timestamps)]]

\* ----------------------------------------------------- create_sequence_data
Sample(i, c) == <<i, c>>

NumTimestamps(meta) ==
    ((meta.end_time - meta.start_time) * meta.sampling_rate) \div SequenceTicksPerUnit + 1

SequenceMeta(t_end, sampling_rate, shifts_per_signal) ==
    [start_time |-> 0,
     end_time |-> t_end,
     modality |-> "sequence",
     sampling_rate |-> sampling_rate,
     phase_shift_per_signal |-> shifts_per_signal]

SequenceData(meta, n_signals) ==
    [i \in 1..NumTimestamps(meta) |-> [c \in 1..n_signals |-> Sample(i - 1, c - 1)]]

\* np.random.rand(n_signals) / sampling_rate * 0.9: every shift in [0, 0.9 / rate)
ShiftValues(meta) == {s \in Times : 10 * s * meta.sampling_rate < 9 * SequenceTicksPerUnit}

SeqsOfLen(S, n) == {q \in SeqsUpTo(S, n) : Len(q) = n}

\* ------------------------------------------------------ SequenceInterpolator
\* SequenceValidInterval with np.max and np.min exchanged
SequenceValidIntervalSwapped(base, shifts) ==
    TimeInterval(base.start_time + Min(Range(shifts)), base.end_time + Max(Range(shifts)))

\* SequenceValidInterval without the phase-shift narrowing
SequenceValidIntervalUnshrunk(base, shifts) ==
    TimeInterval(base.start_time, base.end_time)

SequenceValidInterval(base, shifts) ==
    TimeInterval(base.start_time + Max(Range(shifts)), base.end_time + Min(Range(shifts)))

SequenceInterpolatorInit(meta, shifts, data) ==
    LET base == InterpolatorInit(meta)
        own == [time_delta |-> SequenceTicksPerUnit \div meta.sampling_rate,
                use_phase_shifts |-> meta.phase_shift_per_signal,
                _data |-> data]
    IN  IF meta.phase_shift_per_signal
        THEN [valid_interval |-> SequenceValidInterval(base, shifts), _phase_shifts |-> shifts]
             @@ base @@ own
        ELSE base @@ own

\* np.round((valid_times - phase_shifts - start_time) / time_delta).astype(int);
\* the operands are binary fractions, so the float64 quotient is the exact one
SequenceIdx(obj, valid_times) ==
    [k \in DOMAIN valid_times |->
        [c \in DOMAIN obj._phase_shifts |->
            RoundHalfEven(valid_times[k] - obj._phase_shifts[c] - obj.start_time, obj.time_delta)]]

\* np.take_along_axis(data, idx, axis=0)
TakeAlongAxis(data, idx) ==
    [k \in DOMAIN idx |-> [c \in DOMAIN idx[k] |-> NpGet(data, idx[k][c])[c]]]

SequenceInterpolate(obj, times) ==
    LET valid == ValidTimesOf(obj, times)
        valid_times == BoolIndex(times, valid)
    IN  IF "_phase_shifts" \notin DOMAIN obj THEN Raise("AttributeError")
        ELSE LET idx == SequenceIdx(obj, valid_times)
             IN  IF \E k \in DOMAIN idx : \E c \in DOMAIN idx[k] : ~InBounds(obj._data, idx[k][c])
                 THEN [Raise("IndexError") EXCEPT !.idx = idx]
                 ELSE [Raise("ok") EXCEPT !.values = TakeAlongAxis(obj._data, idx),
                                          !.mask = valid,
                                          !.idx = idx]

\* --------------------------------------------------------------- ScreenMeta
\* VideoMeta: one chunk of num_frames frames starting at global frame first_frame
ScreenMeta(file_name, first_frame, num_frames) ==
    [file_name |-> file_name, first_frame |-> first_frame, num_frames |-> num_frames]

\* the content of global frame g of the logical frame sequence
Frame(g) == 100 + g

RECURSIVE Sum(_)
Sum(s) == IF s = <<>> THEN 0 ELSE Head(s) + Sum(Tail(s))

\* the chunk metadata files and the chunk data files of a recording whose
\* frames are split into contiguous chunks of the given sizes
ChunkMetas(sizes) ==
    [i \in DOMAIN sizes |-> ScreenMeta(i, Sum(SubSeq(sizes, 1, i - 1)), sizes[i])]

ChunkFiles(metas) ==
    [i \in DOMAIN metas |-> [j \in 1..metas[i].num_frames |-> Frame(metas[i].first_frame + j - 1)]]

\* every way to split n frames into contiguous non-empty chunks
Splits(n) == {sizes \in SeqsUpTo(1..n, n) : Sum(sizes) = n}

\* -------------------------------------------------------- ScreenInterpolator
\* np.concatenate([np.full(m.num_frames, i) for i, m in enumerate(self.meta)])
RECURSIVE DataFileIdx(_, _)
DataFileIdx(metas, i) ==
    IF i > Len(metas) THEN <<>>
    ELSE [j \in 1..metas[i].num_frames |-> i - 1] \o DataFileIdx(metas, i + 1)

FirstFrameIdx(metas) == [i \in DOMAIN metas |-> metas[i].first_frame]

ScreenInterpolatorInit(meta, timestamps, metas) ==
    InterpolatorInit(meta) @@
    [timestamps |-> timestamps,
     meta |-> metas,
     _data_files |-> [i \in DOMAIN metas |-> metas[i].file_name],
     _num_frames |-> [i \in DOMAIN metas |-> metas[i].num_frames],
     _first_frame_idx |-> FirstFrameIdx(metas),
     _data_file_idx |-> DataFileIdx(metas, 1)]

\* valid_times += 1e-6
Nudge(valid_times) == [k \in DOMAIN valid_times |-> valid_times[k] + Eps]

\* TimesSorted accepting equal neighbours: np.all(np.diff(valid_times) >= 0)
TimesSortedNonStrict(valid_times) ==
    \A k \in 1..(Len(valid_times) - 1) : valid_times[k + 1] - valid_times[k] >= 0

\* np.all(np.diff(valid_times) > 0)
TimesSorted(valid_times) ==
    \A k \in 1..(Len(valid_times) - 1) : valid_times[k + 1] - valid_times[k] > 0

\* np.searchsorted(self.timestamps, valid_times) - 1
FrameIdx(timestamps, valid_times) ==
    [k \in DOMAIN valid_times |-> SearchSorted(timestamps, valid_times[k]) - 1]

\* IdxInRange without the lower bound: np.all(idx < len(self.timestamps))
IdxInRangeUpperOnly(timestamps, idx) ==
    \A k \in DOMAIN idx : idx[k] < Len(timestamps)

\* np.all((idx >= 0) & (idx < len(self.timestamps)))
IdxInRange(timestamps, idx) ==
    \A k \in DOMAIN idx : idx[k] >= 0 /\ idx[k] < Len(timestamps)

\* the loop visiting the file of every query, without np.unique
FilesToLoadEvery(data_file_idx) == data_file_idx

\* the files the loop visits, in order
FilesToLoad(data_file_idx) == Unique(data_file_idx)

\* LocalOffset without subtracting the chunk's first frame
LocalOffsetGlobal(obj, g, u) == g

\* the local offset of global frame g in chunk file u
LocalOffset(obj, g, u) == g - obj._first_frame_idx[u + 1]

\* the loop over unique_file_idx: acc is the call's result so far
RECURSIVE GatherLoop(_, _, _, _, _, _)
GatherLoop(obj, files, idx, data_file_idx, us, acc) ==
    IF us = <<>> \/ acc.status # "ok" THEN acc
    ELSE LET u_idx == Head(us)
             data == files[obj._data_files[u_idx + 1]]
             idx_for_this_file == {k \in DOMAIN idx : data_file_idx[k] = u_idx}
             loaded == [acc EXCEPT !.loads = Append(@, u_idx)]
         IN  IF \E k \in idx_for_this_file : ~InBounds(data, LocalOffset(obj, idx[k], u_idx))
             THEN [loaded EXCEPT !.status = "IndexError", !.values = <<>>, !.mask = <<>>]
             ELSE GatherLoop(obj, files, idx, data_file_idx, Tail(us),
                    [loaded EXCEPT
                       !.values = [k \in DOMAIN idx |->
                                     IF k \in idx_for_this_file
                                     THEN NpGet(data, LocalOffset(obj, idx[k], u_idx))
                                     ELSE @[k]],
                       !.writes = [k \in DOMAIN idx |->
                                     IF k \in idx_for_this_file THEN @[k] + 1 ELSE @[k]]])

ScreenInterpolate(obj, files, times) ==
    LET valid == ValidTimesOf(obj, times)
        valid_times == Nudge(BoolIndex(times, valid))
    IN  IF ~TimesSorted(valid_times) THEN Raise("AssertionError")
        ELSE LET idx == FrameIdx(obj.timestamps, valid_times)
             IN  IF ~IdxInRange(obj.timestamps, idx)
                 THEN [Raise("AssertionError") EXCEPT !.idx = idx]
                 ELSE IF \E k \in DOMAIN idx : ~InBounds(obj._data_file_idx, idx[k])
                 THEN [Raise("IndexError") EXCEPT !.idx = idx]
                 ELSE LET data_file_idx == [k \in DOMAIN idx |-> NpGet(obj._data_file_idx, idx[k])]
                      IN  GatherLoop(obj, files, idx, data_file_idx, FilesToLoad(data_file_idx),
                            [Raise("ok") EXCEPT !.values = [k \in DOMAIN idx |-> 0],
                                                !.mask = valid,
                                                !.idx = idx,
                                                !.writes = [k \in DOMAIN idx |-> 0]])

\* ------------------------------------------------------------------- state
\* self: the interpolator object; disk: the chunk data files of a screen
\* recording, by file name; call: the call in progress and its result
VARIABLES self, disk, call
vars == <<self, disk, call>>

Idle == [op |-> "idle", times |-> <<>>, result |-> Raise("ok")]

\* Interpolator.create on a recording written by create_sequence_data
InitSequence ==
    \E t_end \in Times, rate \in SamplingRates, n_signals \in 1..MaxChannels, sps \in BOOLEAN :
        LET meta == SequenceMeta(t_end, rate, sps)
        IN  \E shifts \in (IF sps THEN SeqsOfLen(ShiftValues(meta), n_signals) ELSE {<<>>}) :
                /\ self = [kind |-> "sequence"]
                          @@ SequenceInterpolatorInit(meta, shifts, SequenceData(meta, n_signals))
                /\ disk = <<>>
                /\ call = Idle

\* Interpolator.create on a screen recording: strictly increasing onsets, and
\* chunks that tile the frames
InitScreen ==
    \E n \in 1..MaxFrames, start \in StartTimes, end \in EndTimes :
        \E timestamps \in {q \in SeqsOfLen(Times, n) : \A k \in 1..(n - 1) : q[k] < q[k + 1]},
           sizes \in Splits(n) :
            LET meta == [start_time |-> start, end_time |-> end, modality |-> "screen"]
                metas == ChunkMetas(sizes)
            IN  /\ self = [kind |-> "screen"] @@ ScreenInterpolatorInit(meta, timestamps, metas)
                /\ disk = ChunkFiles(metas)
                /\ call = Idle

Init == InitSequence \/ InitScreen

Returned(op, times, result) == [op |-> op, times |-> times, result |-> result]

SequenceInterpolateCall ==
    /\ call.op = "idle"
    /\ self.kind = "sequence"
    /\ \E times \in TimesArrays :
        call' = Returned("interpolate", times, SequenceInterpolate(self, times))
    /\ UNCHANGED <<self, disk>>

ScreenInterpolateCall ==
    /\ call.op = "idle"
    /\ self.kind = "screen"
    /\ \E times \in TimesArrays :
        call' = Returned("interpolate", times, ScreenInterpolate(self, disk, times))
    /\ UNCHANGED <<self, disk>>

ContainsCall ==
    /\ call.op = "idle"
    /\ \E times \in TimesArrays :
        call' = Returned("contains", times, ContainsOf(self, times))
    /\ UNCHANGED <<self, disk>>

ValidTimesCall ==
    /\ call.op = "idle"
    /\ \E t \in Times :
        call' = Returned("valid_times", <<t>>,
                         [Raise("ok") EXCEPT !.mask = ValidTimesOf(self, <<t>>)])
    /\ UNCHANGED <<self, disk>>

\* the caller takes the result; the object is ready for the next call
Return ==
    /\ call.op # "idle"
    /\ call' = Idle
    /\ UNCHANGED <<self, disk>>

Next ==
    \/ SequenceInterpolateCall
    \/ ScreenInterpolateCall
    \/ ContainsCall
    \/ ValidTimesCall
    \/ Return

Spec == Init /\ [][Next]_vars

\* ============================================================== properties
IsSequence == self.kind = "sequence"
IsScreen == self.kind = "screen"
HasShifts == "_phase_shifts" \in DOMAIN self
Interpolated == call.op = "interpolate"
Ok == call.result.status = "ok"

\* the positions of call.times inside the object's valid interval
ValidPos ==
    {k \in DOMAIN call.times :
        self.valid_interval.start <= call.times[k] /\ call.times[k] < self.valid_interval.end}

\* the j-th valid position, counting from 1
NthValidPos(j) == CHOOSE k \in ValidPos : Cardinality({m \in ValidPos : m <= k}) = j

\* the valid query times in input order
ValidQueries == [j \in 1..Cardinality(ValidPos) |-> call.times[NthValidPos(j)]]

\* what interpolate returns for the one-element array [t]
SingleQuery(t) ==
    IF IsSequence THEN SequenceInterpolate(self, <<t>>) ELSE ScreenInterpolate(self, disk, <<t>>)

\* C1: whenever interpolate returns, for either interpolator, the mask has
\* the length of times and is true exactly at the times inside
\* [valid_interval.start, valid_interval.end), and values holds one entry per
\* true mask position, the j-th entry being the value of the j-th valid time.
C1_MaskAndCompactedValues ==
    (Interpolated /\ Ok) =>
        /\ Len(call.result.mask) = Len(call.times)
        /\ \A k \in DOMAIN call.times : call.result.mask[k] <=> (k \in ValidPos)
        /\ Len(call.result.values) = Cardinality(ValidPos)
        /\ \A j \in DOMAIN call.result.values :
               /\ SingleQuery(ValidQueries[j]).status = "ok"
               /\ call.result.values[j] = SingleQuery(ValidQueries[j]).values[1]

\* a returned call whose times hold an invalid entry before a valid one
C1_Witness ==
    /\ Interpolated /\ Ok
    /\ Len(call.times) >= 2
    /\ ~call.result.mask[1]
    /\ call.result.mask[2]
    /\ Len(call.result.values) = 1

\* the valid interval the recording's metadata and phase shifts prescribe
AdjustedStart ==
    IF HasShifts THEN self.start_time + Max(Range(self._phase_shifts)) ELSE self.start_time
AdjustedEnd ==
    IF HasShifts THEN self.end_time + Min(Range(self._phase_shifts)) ELSE self.end_time

ValidTimesAnswer == call.result.mask[1]

\* C2 as stated: valid_times([t]) is true exactly inside the (phase-shift
\* adjusted) valid interval, and t = end_time is always reported invalid.
C2_EndTimeAlwaysInvalid ==
    (call.op = "valid_times") =>
        /\ ValidTimesAnswer <=> (AdjustedStart <= call.times[1] /\ call.times[1] < AdjustedEnd)
        /\ (call.times[1] = self.end_time) => ~ValidTimesAnswer

\* C2 amended: valid_times([t]) is true exactly for t in
\* [start_time + max(shift), end_time + min(shift)) (in [start_time, end_time)
\* without phase shifts); t = valid_interval.end is always invalid; t =
\* end_time is invalid when there are no phase shifts or the smallest shift is
\* not positive, and valid when every shift is positive and start_time +
\* max(shift) <= end_time.
C2_HalfOpenAdjustedInterval ==
    (call.op = "valid_times") =>
        /\ ValidTimesAnswer <=> (AdjustedStart <= call.times[1] /\ call.times[1] < AdjustedEnd)
        /\ (call.times[1] = self.valid_interval.end) => ~ValidTimesAnswer
        /\ (call.times[1] = self.end_time /\ AdjustedEnd <= self.end_time) => ~ValidTimesAnswer
        /\ (call.times[1] = self.end_time /\ AdjustedEnd > self.end_time
              /\ AdjustedStart <= self.end_time) => ValidTimesAnswer

\* a sequence whose channels have different positive shifts, asked about end_time
C2_Witness ==
    /\ call.op = "valid_times"
    /\ IsSequence /\ HasShifts
    /\ Min(Range(self._phase_shifts)) > 0
    /\ Max(Range(self._phase_shifts)) > Min(Range(self._phase_shifts))
    /\ call.times[1] = self.end_time
    /\ ValidTimesAnswer

\* C3: for a sequence recording without phase shifts, interpolate([start_time
\* + i/r]) for a sample index i whose time is valid completes and returns
\* data[i, c] = Sample(i, c) for every channel c.
C3_RoundTripWithoutShifts ==
    (IsSequence /\ ~self.use_phase_shifts /\ Interpolated /\ Len(call.times) = 1) =>
        \A i \in 0..(Len(self._data) - 1) :
            (call.times[1] = self.start_time + i * self.time_delta /\ ValidPos = {1}) =>
                /\ Ok
                /\ call.result.values = <<[c \in DOMAIN self._data[1] |-> Sample(i, c - 1)]>>

\* the recording holds one sample per time_delta from start_time through end_time
OneSamplePerDelta ==
    /\ (self.end_time - self.start_time) % self.time_delta = 0
    /\ Len(self._data) = (self.end_time - self.start_time) \div self.time_delta + 1

\* C4: with per-channel phase shifts and one sample per time_delta from
\* start_time through end_time, interpolate completes and every sample index
\* computed for a valid query time and a channel lies in [0, num_samples).
C4_IndicesInRange ==
    (IsSequence /\ HasShifts /\ OneSamplePerDelta /\ Interpolated) =>
        /\ Ok
        /\ Len(call.result.idx) = Cardinality(ValidPos)
        /\ \A k \in DOMAIN call.result.idx : \A c \in DOMAIN self._phase_shifts :
               /\ call.result.idx[k][c] >= 0
               /\ call.result.idx[k][c] < Len(self._data)
               /\ call.result.values[k][c] = Sample(call.result.idx[k][c], c - 1)

\* differently shifted channels, and a valid query that reads the last sample
\* of one channel and an earlier sample of another
C4_Witness ==
    /\ IsSequence /\ HasShifts /\ OneSamplePerDelta /\ Interpolated /\ Ok
    /\ Len(self._data) >= 2
    /\ \E k \in DOMAIN call.result.idx : \E c, d \in DOMAIN self._phase_shifts :
           /\ self._phase_shifts[c] # self._phase_shifts[d]
           /\ call.result.idx[k][c] = Len(self._data) - 1
           /\ call.result.idx[k][d] < Len(self._data) - 1

\* the 0-based indices of the frames whose onset is at most / below time v
FramesUpTo(v) == {j - 1 : j \in {m \in DOMAIN self.timestamps : self.timestamps[m] <= v}}
FramesBelow(v) == {j - 1 : j \in {m \in DOMAIN self.timestamps : self.timestamps[m] < v}}

\* C5 as stated: the frame resolved for each valid query is the latest frame
\* whose onset is <= the query time plus epsilon (so a query equal to a frame
\* onset resolves to that frame when no later onset is that close).
C5_LatestOnsetAtMostNudged ==
    (IsScreen /\ Interpolated /\ Ok) =>
        \A k \in DOMAIN call.result.idx :
            /\ FramesUpTo(ValidQueries[k] + Eps) # {}
            /\ call.result.idx[k] = Max(FramesUpTo(ValidQueries[k] + Eps))

\* C5 amended: the frame resolved for each valid query is the latest frame
\* whose onset is strictly below the query time plus epsilon; a query equal
\* to a frame onset resolves to that frame when no later onset lies less than
\* epsilon after it.
C5_LatestOnsetBelowNudged ==
    (IsScreen /\ Interpolated /\ Ok) =>
        /\ Len(call.result.idx) = Cardinality(ValidPos)
        /\ \A k \in DOMAIN call.result.idx :
            /\ FramesBelow(ValidQueries[k] + Eps) # {}
            /\ call.result.idx[k] = Max(FramesBelow(ValidQueries[k] + Eps))
            /\ \A j \in DOMAIN self.timestamps :
                   (/\ self.timestamps[j] = ValidQueries[k]
                    /\ \A m \in DOMAIN self.timestamps :
                           m > j => self.timestamps[m] >= ValidQueries[k] + Eps)
                   => call.result.idx[k] = j - 1

\* in one call, a query equal to an onset resolves to it, and a query that
\* lies exactly epsilon before that onset resolves to the frame before
C5_Witness ==
    /\ IsScreen /\ Interpolated /\ Ok
    /\ Len(self.timestamps) >= 2
    /\ \E k \in DOMAIN call.result.idx :
           /\ ValidQueries[k] = self.timestamps[2]
           /\ call.result.idx[k] = 1
    /\ \E k \in DOMAIN call.result.idx :
           /\ self.timestamps[1] < ValidQueries[k]
           /\ ValidQueries[k] + Eps = self.timestamps[2]
           /\ call.result.idx[k] = 0

StrictlyIncreasing(s) == \A a, b \in DOMAIN s : a < b => s[a] < s[b]

\* C6 as stated: interpolate of a ScreenInterpolator fails for every times
\* array that is not strictly increasing, wherever the offending pair lies.
C6_AnyUnsortedInputFails ==
    (IsScreen /\ Interpolated /\ ~StrictlyIncreasing(call.times)) => ~Ok

\* C6 amended: interpolate of a ScreenInterpolator fails with the "Times must
\* be sorted" assertion whenever the valid query times, in input order, are
\* not strictly increasing, and returns no frames then; when it returns, the
\* valid query times are strictly increasing and the frames are in input order.
C6_UnsortedValidTimesFail ==
    (IsScreen /\ Interpolated) =>
        /\ ~StrictlyIncreasing(ValidQueries) =>
               (call.result.status = "AssertionError" /\ call.result.values = <<>>)
        /\ Ok => /\ StrictlyIncreasing(ValidQueries)
                 /\ \A a, b \in DOMAIN call.result.idx : a < b => call.result.idx[a] <= call.result.idx[b]

\* two valid times in decreasing order make the call fail
C6_Witness ==
    /\ IsScreen /\ Interpolated
    /\ Cardinality(ValidPos) = 2
    /\ ValidQueries[1] > ValidQueries[2]
    /\ call.result.status = "AssertionError"

\* the same recording held in one chunk: the object and its one data file
SingleChunkSelf ==
    ScreenInterpolatorInit(self, self.timestamps, <<ScreenMeta(1, 0, Len(self.timestamps))>>)
SingleChunkDisk == <<[g \in 1..Len(self.timestamps) |-> Frame(g - 1)]>>

\* C7: for every split of the frames into contiguous chunks, interpolate
\* ends as it does on the single-chunk recording of the same frames and, when
\* it returns, returns the same frames at the same positions.
C7_ChunkingInvisible ==
    (IsScreen /\ Interpolated) =>
        LET single == ScreenInterpolate(SingleChunkSelf, SingleChunkDisk, call.times)
        IN  /\ call.result.status = single.status
            /\ call.result.values = single.values
            /\ call.result.mask = single.mask
            /\ Ok => \A k \in DOMAIN call.result.values :
                         call.result.values[k] = Frame(call.result.idx[k])

\* a recording of several chunks, queried at every frame index
C7_Witness ==
    /\ IsScreen /\ Interpolated /\ Ok
    /\ Len(self.meta) >= 2
    /\ Range(call.result.idx) = 0..(Len(self.timestamps) - 1)

\* C8: `times in interpolator` returns a boolean for both kinds: true iff
\* some time lies in [timestamps[0], timestamps[-1]] for a ScreenInterpolator,
\* and iff some time lies in the half-open valid interval otherwise.
C8_MembershipReturnsBoolean ==
    (call.op = "contains") =>
        /\ Ok
        /\ call.result.values =
             IF IsScreen
             THEN \E k \in DOMAIN call.times :
                      /\ self.timestamps[1] <= call.times[k]
                      /\ call.times[k] <= self.timestamps[Len(self.timestamps)]
             ELSE ValidPos # {}

\* C9: interpolate of a ScreenInterpolator returns frames only when every
\* resolved frame index is in [0, total_frame_count); a valid query with no
\* frame onset below the nudged time (resolved index -1) fails the call, which
\* returns no frame.
C9_OutOfRangeIndexAborts ==
    (IsScreen /\ Interpolated) =>
        /\ Ok => \A k \in DOMAIN call.result.idx :
                     call.result.idx[k] >= 0 /\ call.result.idx[k] < Len(self._data_file_idx)
        /\ (\E j \in DOMAIN ValidQueries : FramesBelow(ValidQueries[j] + Eps) = {})
               => (call.result.status = "AssertionError" /\ call.result.values = <<>>)

\* start_time before the first onset, and a valid query before that onset
C9_Witness ==
    /\ IsScreen /\ Interpolated
    /\ self.start_time < self.timestamps[1]
    /\ StrictlyIncreasing(ValidQueries)
    /\ \E j \in DOMAIN ValidQueries : ValidQueries[j] + Eps < self.timestamps[1]
    /\ \E k \in DOMAIN call.result.idx : call.result.idx[k] = 0 - 1
    /\ call.result.status = "AssertionError"

\* the 0-based index of the chunk that holds global frame g
OwningChunk(g) ==
    CHOOSE u \in 0..(Len(self.meta) - 1) :
        /\ self.meta[u + 1].first_frame <= g
        /\ g < self.meta[u + 1].first_frame + self.meta[u + 1].num_frames

TimesLoaded(u) == Cardinality({n \in DOMAIN call.result.loads : call.result.loads[n] = u})

\* C10: in a call that returns, a chunk file is loaded once if it owns a
\* resolved frame and not at all otherwise, and every output position is
\* written exactly once, with the frame at offset idx - first_frame of the
\* file of its owning chunk.
C10_OneLoadPerTouchedChunk ==
    (IsScreen /\ Interpolated /\ Ok) =>
        /\ \A u \in 0..(Len(self.meta) - 1) :
               TimesLoaded(u) =
                   IF \E k \in DOMAIN call.result.idx : OwningChunk(call.result.idx[k]) = u
                   THEN 1 ELSE 0
        /\ \A k \in DOMAIN call.result.idx :
               LET u == OwningChunk(call.result.idx[k])
               IN  /\ call.result.writes[k] = 1
                   /\ call.result.values[k] =
                        disk[self.meta[u + 1].file_name]
                            [call.result.idx[k] - self.meta[u + 1].first_frame + 1]

\* two queries resolved into one chunk that is not the first, another chunk untouched
C10_Witness ==
    /\ IsScreen /\ Interpolated /\ Ok
    /\ Len(call.result.idx) = 2
    /\ call.result.idx[1] # call.result.idx[2]
    /\ OwningChunk(call.result.idx[1]) = 1
    /\ OwningChunk(call.result.idx[2]) = 1
    /\ call.result.loads = <<1>>
====
